---------------------------- MODULE Spec2Model ----------------------------
(***************************************************************************)
(* Model of the Envie library (src/src/lib.rs): a store holding a          *)
(* HashMap<String, String> parsed from a ".env" file, read accessors that  *)
(* fall back to the process environment, and set/remove operations that    *)
(* rewrite the ".env" file.                                                *)
(*                                                                         *)
(* A Rust String is modelled as a sequence of one-character strings, so    *)
(* that formatting ("{}={}\n") and parsing (lines, trim, split_once) are   *)
(* computed character by character.  A HashMap<String, String> is a        *)
(* function whose domain is the set of its keys.                           *)
(***************************************************************************)
EXTENDS Integers, Sequences, FiniteSets, TLC

VARIABLES
    variables,  \* Envie::variables, the in-memory mapping (lib.rs:7)
    loaded,     \* the path the current Envie was loaded from ("" : built by a struct literal)
    files,      \* the filesystem: path -> [exists, content]
    env,        \* the process environment, read by env::var and written by env::set_var
    last        \* the most recent call and what it returned

vars == <<variables, loaded, files, env, last>>

-----------------------------------------------------------------------------
(* Strings *)

NL == "\n"
EQ == "="
SP == " "
HASH == "#"

\* char::is_whitespace, on the characters the model uses
is_whitespace(c) == c \in {SP, NL, "\t", "\r"}

RECURSIVE trim_start(_)
trim_start(s) ==
    IF s = <<>> THEN <<>>
    ELSE IF is_whitespace(Head(s)) THEN trim_start(Tail(s))
    ELSE s

RECURSIVE trim_end(_)
trim_end(s) ==
    IF s = <<>> THEN <<>>
    ELSE IF is_whitespace(s[Len(s)]) THEN trim_end(SubSeq(s, 1, Len(s) - 1))
    ELSE s

\* str::trim
trim(s) == trim_end(trim_start(s))

\* str::starts_with(char)
starts_with(s, c) == Len(s) > 0 /\ s[1] = c

\* the index of the first occurrence of c in s, 0 when there is none
RECURSIVE find_from(_, _, _)
find_from(s, c, i) ==
    IF i > Len(s) THEN 0
    ELSE IF s[i] = c THEN i
    ELSE find_from(s, c, i + 1)

\* str::split_once(char): None, or the text before and after the first c
split_once(s, c) ==
    LET i == find_from(s, c, 1)
    IN  IF i = 0 THEN [some |-> FALSE, fst |-> <<>>, snd |-> <<>>]
        ELSE [some |-> TRUE,
              fst |-> SubSeq(s, 1, i - 1),
              snd |-> SubSeq(s, i + 1, Len(s))]

\* str::lines: the text split at every "\n"; a final line without "\n" is a
\* line when it is not empty.  (lines also drops a "\r" before the "\n";
\* parse trims every line, which removes that "\r" in any case.)
RECURSIVE lines(_)
lines(s) ==
    IF s = <<>> THEN <<>>
    ELSE LET i == find_from(s, NL, 1)
         IN  IF i = 0 THEN <<s>>
             ELSE <<SubSeq(s, 1, i - 1)>> \o lines(SubSeq(s, i + 1, Len(s)))

-----------------------------------------------------------------------------
(* HashMap<String, String> *)

EmptyMap == [k \in {} |-> <<>>]

\* HashMap::insert
insert(m, k, v) == [x \in DOMAIN m \cup {k} |-> IF x = k THEN v ELSE m[x]]

\* HashMap::remove
map_remove(m, k) == [x \in DOMAIN m \ {k} |-> m[x]]

\* the iteration orders a HashMap may produce: every order of its keys
Orders(S) ==
    {o \in [1..Cardinality(S) -> S] : \A i, j \in 1..Cardinality(S) : o[i] = o[j] => i = j}

-----------------------------------------------------------------------------
(* Envie::parse *)

\* the filter_map closure: one line to None or Some((key, value))
parse_line(raw) ==
    LET line == trim(raw)
        kv == split_once(line, EQ)
    IN  IF line = <<>> \/ starts_with(line, HASH)
        THEN [some |-> FALSE, key |-> <<>>, value |-> <<>>]
        ELSE IF kv.some
             THEN [some |-> TRUE, key |-> trim(kv.fst), value |-> trim(kv.snd)]
             ELSE [some |-> TRUE, key |-> line, value |-> <<>>]

\* collect() with a bug: the first pair with a key is kept
RECURSIVE collect_first_wins(_, _)
collect_first_wins(ls, m) ==
    IF ls = <<>> THEN m
    ELSE LET e == parse_line(Head(ls))
         IN  collect_first_wins(Tail(ls),
                 IF e.some /\ e.key \notin DOMAIN m THEN insert(m, e.key, e.value) ELSE m)

\* collect(): the pairs inserted in line order, a later pair replacing an
\* earlier one with the same key
RECURSIVE collect(_, _)
collect(ls, m) ==
    IF ls = <<>> THEN m
    ELSE LET e == parse_line(Head(ls))
         IN  collect(Tail(ls), IF e.some THEN insert(m, e.key, e.value) ELSE m)

parse(content) == collect(lines(content), EmptyMap)

-----------------------------------------------------------------------------
(* The filesystem and the process environment *)

DefaultPath == ".env"          \* the literal of load, reload, set and remove
OtherPath == "example.env"     \* a path given to load_with_path (tests::test_load_with_path)
NoPath == ""                   \* an Envie built by a struct literal, as the tests build it
Paths == {DefaultPath, OtherPath}

File(content) == [exists |-> TRUE, content |-> content]
NoFile == [exists |-> FALSE, content |-> <<>>]

\* fs::read_to_string: the content, or an error when the file is missing or
\* cannot be read (io = FALSE: permission denied, invalid UTF-8, ...)
read_to_string(fs, path, io) ==
    IF io /\ fs[path].exists
    THEN [tag |-> "Ok", val |-> fs[path].content]
    ELSE [tag |-> "Err"]

\* fs::write that succeeds: the file is created or replaced as a whole
fs_write(fs, path, content) == [fs EXCEPT ![path] = File(content)]

\* env::var(key).ok()
env_var(e, key) ==
    IF key \in DOMAIN e THEN [tag |-> "Some", val |-> e[key]] ELSE [tag |-> "None"]

\* env::set_var panics when the name is empty or contains '=' (setenv fails
\* with EINVAL and std unwraps the result)
set_var_panics(key) == key = <<>> \/ \E i \in 1..Len(key) : key[i] = EQ

\* env::set_var that returns
set_var(e, key, value) == insert(e, key, value)

-----------------------------------------------------------------------------
(* Results *)

Ok == [tag |-> "Ok"]
OkVal(v) == [tag |-> "Ok", val |-> v]
Err(msg) == [tag |-> "Err", msg |-> msg]
\* an error whose message is formatted with a path or a key
ErrOf(msg, what) == [tag |-> "Err", msg |-> msg, of |-> what]
Some(v) == [tag |-> "Some", val |-> v]
None == [tag |-> "None"]
Panic == [tag |-> "panic"]

Call(op, key, arg, ret) == [op |-> op, key |-> key, arg |-> arg, ret |-> ret]

\* a panic unwinds the caller: nothing runs after it
Running == last.ret.tag # "panic"

-----------------------------------------------------------------------------
(* Inputs *)

KeyA == <<"A">>
KeyB == <<"B">>
KeyEmpty == <<>>
\* the keys given to set, remove and set_system_env
Keys == {KeyA, KeyEmpty}
\* the keys given to the read accessors: KeyB is only ever in the environment
ReadKeys == Keys \cup {KeyB}

Val1 == <<"1">>
Val1Sp == <<"1", SP>>
Val2 == <<"2">>
Values == {Val1, Val1Sp}

\* "A=1\n"
ContentA == <<"A", EQ, "1", NL>>
\* " =1\n#B\n"
ContentEmptyKey == <<SP, EQ, "1", NL, HASH, "B", NL>>
\* "#c\nA=1\n"
ContentOther == <<HASH, "c", NL, "A", EQ, "1", NL>>

InitDefaultFiles == {NoFile, File(ContentA), File(ContentEmptyKey)}
InitEnvs == {EmptyMap, insert(EmptyMap, KeyB, Val2)}

-----------------------------------------------------------------------------
(* Construction and reload *)

Init ==
    /\ variables = EmptyMap
    /\ loaded = NoPath
    /\ files \in {[p \in Paths |-> IF p = DefaultPath THEN f ELSE File(ContentOther)] :
                    f \in InitDefaultFiles}
    /\ env \in InitEnvs
    /\ last = Call("new", <<>>, <<>>, Ok)

\* Envie::load_with_path, called as op
load_from(op, path) ==
    /\ Running
    /\ \E io \in BOOLEAN :
        LET r == read_to_string(files, path, io)
        IN  IF r.tag = "Ok"
            THEN /\ variables' = parse(r.val)
                 /\ loaded' = path
                 /\ last' = Call(op, <<>>, <<>>, Ok)
            ELSE /\ UNCHANGED <<variables, loaded>>
                 /\ last' = Call(op, <<>>, <<>>,
                                 ErrOf("Failed to read .env file from '{}'. Make sure it exists.",
                                       path))
    /\ UNCHANGED <<files, env>>

load_with_path(path) == load_from("load_with_path", path)

load == load_from("load", DefaultPath)

\* reload with a bug: the mapping is cleared before the file is read
reload_variables_cleared(m, r) == IF r.tag = "Ok" THEN parse(r.val) ELSE EmptyMap

\* reload with a bug: the parsed entries are added to the mapping (extend)
reload_variables_merged(m, r) ==
    IF r.tag = "Ok"
    THEN [k \in DOMAIN m \cup DOMAIN parse(r.val) |->
            IF k \in DOMAIN parse(r.val) THEN parse(r.val)[k] ELSE m[k]]
    ELSE m

\* the mapping reload leaves, given what the read returned
reload_variables(m, r) == IF r.tag = "Ok" THEN parse(r.val) ELSE m

reload ==
    /\ Running
    /\ \E io \in BOOLEAN :
        LET r == read_to_string(files, DefaultPath, io)
        IN  /\ variables' = reload_variables(variables, r)
            /\ last' = Call("reload", <<>>, <<>>,
                            IF r.tag = "Ok" THEN Ok
                            ELSE Err("Failed to read .env file. Make sure it exists in the current directory."))
    /\ UNCHANGED <<loaded, files, env>>

-----------------------------------------------------------------------------
(* Mutation and persistence *)

\* the loop of set and remove: one "{}={}\n" per entry, in the map's order o
RECURSIVE serialize(_, _)
serialize(m, o) ==
    IF o = <<>> THEN <<>>
    ELSE Head(o) \o <<EQ>> \o m[Head(o)] \o <<NL>> \o serialize(m, Tail(o))

\* the write with a bug: the file the store was loaded from is rewritten
rewrite_loaded(fs, m, o, io) ==
    IF io THEN fs_write(fs, IF loaded = NoPath THEN DefaultPath ELSE loaded, serialize(m, o))
    ELSE fs

\* fs::write(".env", content) of set and remove: the files it leaves (io =
\* FALSE: the write fails and the file stays as it was)
rewrite(fs, m, o, io) ==
    IF io THEN fs_write(fs, DefaultPath, serialize(m, o)) ELSE fs

write_result(io) == IF io THEN Ok ELSE Err("Failed to write to .env file")

\* set with a bug: the insert is undone when the write fails
set_rollback(key, value) ==
    /\ Running
    /\ LET m == insert(variables, key, value)
       IN  \E o \in Orders(DOMAIN m), io \in BOOLEAN :
            /\ variables' = IF io THEN m ELSE variables
            /\ files' = rewrite(files, m, o, io)
            /\ last' = Call("set", key, value, write_result(io))
    /\ UNCHANGED <<loaded, env>>

set(key, value) ==
    /\ Running
    /\ LET m == insert(variables, key, value)
       IN  \E o \in Orders(DOMAIN m), io \in BOOLEAN :
            /\ variables' = m
            /\ files' = rewrite(files, m, o, io)
            /\ last' = Call("set", key, value, write_result(io))
    /\ UNCHANGED <<loaded, env>>

remove(key) ==
    /\ Running
    /\ LET m == map_remove(variables, key)
       IN  \E o \in Orders(DOMAIN m), io \in BOOLEAN :
            /\ variables' = m
            /\ files' = rewrite(files, m, o, io)
            /\ last' = Call("remove", key, <<>>, write_result(io))
    /\ UNCHANGED <<loaded, env>>

\* self.set(key, value)?; env::set_var(key, value); Ok(())
set_system_env(key, value) ==
    /\ Running
    /\ LET m == insert(variables, key, value)
       IN  \E o \in Orders(DOMAIN m), io \in BOOLEAN :
            /\ variables' = m
            /\ files' = rewrite(files, m, o, io)
            /\ IF ~io
               THEN /\ env' = env
                    /\ last' = Call("set_system_env", key, value, write_result(io))
               ELSE IF set_var_panics(key)
               THEN /\ env' = env
                    /\ last' = Call("set_system_env", key, value, Panic)
               ELSE /\ env' = set_var(env, key, value)
                    /\ last' = Call("set_system_env", key, value, Ok)
    /\ UNCHANGED loaded

\* the loop of export_to_system_env over the map in its order o, from entry i:
\* the environment it leaves and whether a set_var panicked on the way
RECURSIVE export_loop(_, _, _, _)
export_loop(m, o, i, e) ==
    IF i > Len(o) THEN [env |-> e, ret |-> Ok]
    ELSE IF set_var_panics(o[i]) THEN [env |-> e, ret |-> Panic]
    ELSE export_loop(m, o, i + 1, set_var(e, o[i], m[o[i]]))

export_to_system_env ==
    /\ Running
    /\ \E o \in Orders(DOMAIN variables) :
        LET r == export_loop(variables, o, 1, env)
        IN  /\ env' = r.env
            /\ last' = Call("export_to_system_env", <<>>, <<>>, r.ret)
    /\ UNCHANGED <<variables, loaded, files>>

-----------------------------------------------------------------------------
(* Reads *)

Upper == <<"A", "B", "C", "D", "E", "F", "G", "H", "I", "J", "K", "L", "M",
           "N", "O", "P", "Q", "R", "S", "T", "U", "V", "W", "X", "Y", "Z">>
Lower == <<"a", "b", "c", "d", "e", "f", "g", "h", "i", "j", "k", "l", "m",
           "n", "o", "p", "q", "r", "s", "t", "u", "v", "w", "x", "y", "z">>
Digits == <<"0", "1", "2", "3", "4", "5", "6", "7", "8", "9">>

\* the index of c in the tuple t, 0 when it is not there
index_of(t, c) == IF \E i \in 1..Len(t) : t[i] = c
                  THEN CHOOSE i \in 1..Len(t) : t[i] = c
                  ELSE 0

to_lowercase_char(c) == IF index_of(Upper, c) = 0 THEN c ELSE Lower[index_of(Upper, c)]

\* str::to_lowercase
to_lowercase(s) == [i \in 1..Len(s) |-> to_lowercase_char(s[i])]

is_digit(c) == index_of(Digits, c) # 0
all_digits(s) == \A i \in 1..Len(s) : is_digit(s[i])

\* the number a string of digits writes
RECURSIVE digits_value(_)
digits_value(s) ==
    IF s = <<>> THEN 0
    ELSE 10 * digits_value(SubSeq(s, 1, Len(s) - 1)) + (index_of(Digits, s[Len(s)]) - 1)

is_sign(c) == c \in {"+", "-"}

\* get with a bug: the process environment is asked first
get_env_first(m, e, key) ==
    IF env_var(e, key).tag = "Some" THEN env_var(e, key)
    ELSE IF key \in DOMAIN m THEN Some(m[key]) ELSE None

\* Envie::get
get(m, e, key) == IF key \in DOMAIN m THEN Some(m[key]) ELSE env_var(e, key)

\* Envie::contains_key
contains_key(m, e, key) == key \in DOMAIN m \/ env_var(e, key).tag = "Some"

\* Envie::get_all
get_all(m) == m

\* the match of get_bool on the lower-cased value
bool_of(key, v) ==
    IF v \in {<<"t", "r", "u", "e">>, <<"1">>} THEN OkVal(TRUE)
    ELSE IF v \in {<<"f", "a", "l", "s", "e">>, <<"0">>} THEN OkVal(FALSE)
    ELSE ErrOf("Invalid boolean value for key '{}'", key)

\* get_bool with a bug: the value is matched as written, not lower-cased
get_bool_case_sensitive(m, e, key) ==
    LET g == get(m, e, key)
    IN  IF g.tag = "None" THEN ErrOf("Key '{}' not found", key) ELSE bool_of(key, g.val)

\* Envie::get_bool
get_bool(m, e, key) ==
    LET g == get(m, e, key)
    IN  IF g.tag = "None" THEN ErrOf("Key '{}' not found", key) ELSE bool_of(key, to_lowercase(g.val))

I32_MAX == 2147483647
I32_MIN == 0 - I32_MAX - 1

\* the checked accumulation of i32::from_str over the digits of s from i on:
\* acc * 10 + d for a positive number, acc * 10 - d for a negative one, an
\* error as soon as a step leaves the range of i32
RECURSIVE accumulate_i32(_, _, _, _)
accumulate_i32(s, i, acc, neg) ==
    IF i > Len(s) THEN OkVal(acc)
    ELSE LET d == index_of(Digits, s[i]) - 1
         IN  IF neg
             THEN IF acc >= 0 - (I32_MAX \div 10) /\ 10 * acc >= I32_MIN + d
                  THEN accumulate_i32(s, i + 1, 10 * acc - d, neg)
                  ELSE [tag |-> "Err"]
             ELSE IF acc <= I32_MAX \div 10 /\ 10 * acc <= I32_MAX - d
                  THEN accumulate_i32(s, i + 1, 10 * acc + d, neg)
                  ELSE [tag |-> "Err"]

\* str::parse::<i32>: an optional sign, then one or more digits, in range
parse_i32(s) ==
    LET signed == Len(s) > 0 /\ is_sign(s[1])
        body == IF signed THEN Tail(s) ELSE s
    IN  IF body = <<>> \/ ~all_digits(body) THEN [tag |-> "Err"]
        ELSE accumulate_i32(body, 1, 0, signed /\ s[1] = "-")

\* Envie::get_int
get_int(m, e, key) ==
    LET g == get(m, e, key)
    IN  IF g.tag = "None" THEN ErrOf("Key '{}' not found", key)
        ELSE IF parse_i32(g.val).tag = "Err" THEN ErrOf("Invalid integer value for key '{}'", key)
        ELSE parse_i32(g.val)

\* str::parse::<f64>: Sign? ('inf' | 'infinity' | 'nan' | Number), with
\* Number ::= (Digit+ | Digit+ '.' Digit* | Digit* '.' Digit+) Exp? and
\* Exp ::= 'e' Sign? Digit+, letters in either case.  The value of a Number
\* is kept exact: num * 10^exp10, negated when neg (the rounding to the
\* nearest f64 is not modelled).
parse_f64(s) ==
    LET signed == Len(s) > 0 /\ is_sign(s[1])
        neg == signed /\ s[1] = "-"
        body == to_lowercase(IF signed THEN Tail(s) ELSE s)
        me == split_once(body, "e")
        mant == IF me.some THEN me.fst ELSE body
        ex == IF me.some THEN me.snd ELSE <<"0">>
        exsigned == Len(ex) > 0 /\ is_sign(ex[1])
        exbody == IF exsigned THEN Tail(ex) ELSE ex
        exval == IF exsigned /\ ex[1] = "-" THEN 0 - digits_value(exbody)
                 ELSE digits_value(exbody)
        dot == split_once(mant, ".")
        ip == IF dot.some THEN dot.fst ELSE mant
        fp == IF dot.some THEN dot.snd ELSE <<>>
    IN  IF body \in {<<"i", "n", "f">>, <<"i", "n", "f", "i", "n", "i", "t", "y">>}
        THEN OkVal([neg |-> neg, special |-> "inf"])
        ELSE IF body = <<"n", "a", "n">> THEN OkVal([neg |-> neg, special |-> "nan"])
        ELSE IF ip \o fp = <<>> \/ ~all_digits(ip) \/ ~all_digits(fp) THEN [tag |-> "Err"]
        ELSE IF exbody = <<>> \/ ~all_digits(exbody) THEN [tag |-> "Err"]
        ELSE OkVal([neg |-> neg, num |-> digits_value(ip \o fp), exp10 |-> exval - Len(fp)])

\* Envie::get_f64
get_f64(m, e, key) ==
    LET g == get(m, e, key)
    IN  IF g.tag = "None" THEN ErrOf("Key '{}' not found", key)
        ELSE IF parse_f64(g.val).tag = "Err" THEN ErrOf("Invalid float value for key '{}'", key)
        ELSE parse_f64(g.val)

\* a call of a read accessor: it returns and touches nothing
read(op, key, ret) ==
    /\ Running
    /\ last' = Call(op, key, <<>>, ret)
    /\ UNCHANGED <<variables, loaded, files, env>>

\* get with a bug: a value found in the environment is kept in the mapping
call_get_caching(key) ==
    /\ Running
    /\ last' = Call("get", key, <<>>, get(variables, env, key))
    /\ variables' = IF key \notin DOMAIN variables /\ key \in DOMAIN env
                    THEN insert(variables, key, env[key])
                    ELSE variables
    /\ UNCHANGED <<loaded, files, env>>

call_get(key) == read("get", key, get(variables, env, key))
call_get_bool(key) == read("get_bool", key, get_bool(variables, env, key))
call_get_int(key) == read("get_int", key, get_int(variables, env, key))
call_get_f64(key) == read("get_f64", key, get_f64(variables, env, key))
call_contains_key(key) ==
    read("contains_key", key, OkVal(contains_key(variables, env, key)))
call_get_all == read("get_all", <<>>, OkVal(get_all(variables)))

-----------------------------------------------------------------------------
(* The library under any sequence of calls *)

Next ==
    \/ load
    \/ \E path \in Paths : load_with_path(path)
    \/ reload
    \/ \E key \in Keys, value \in Values : set(key, value)
    \/ \E key \in Keys : remove(key)
    \/ \E key \in Keys, value \in Values : set_system_env(key, value)
    \/ export_to_system_env
    \/ \E key \in ReadKeys : call_get(key)
    \/ \E key \in ReadKeys : call_get_bool(key)
    \/ \E key \in ReadKeys : call_get_int(key)
    \/ \E key \in ReadKeys : call_get_f64(key)
    \/ \E key \in ReadKeys : call_contains_key(key)
    \/ call_get_all

Spec == Init /\ [][Next]_vars

-----------------------------------------------------------------------------
(* C1: the write/parse round trip *)

NoEqNl(s) == \A i \in 1..Len(s) : s[i] \notin {EQ, NL}
MapNoEqNl(m) == \A k \in DOMAIN m : NoEqNl(k) /\ NoEqNl(m[k])

\* C1: for a store whose keys and values contain no '=' and no newline,
\* whenever the most recent set or remove returned success, the backing file
\* parses to exactly the in-memory mapping (a fresh load() returns a store
\* with the same get_all()).
C1_FileParsesToMapping ==
    (last.op \in {"set", "remove"} /\ last.ret = Ok /\ MapNoEqNl(variables))
        => /\ files[DefaultPath].exists
           /\ parse(files[DefaultPath].content) = get_all(variables)

-----------------------------------------------------------------------------
(* C2: reload is all-or-nothing *)

\* C2: a reload of a default file that cannot be read returns an error, and a
\* reload that returns an error leaves the in-memory mapping exactly as it was.
C2_ReloadAllOrNothing ==
    [][/\ (last'.op = "reload" /\ ~files[DefaultPath].exists)
            => last'.ret.tag = "Err"
       /\ (last'.op = "reload" /\ last'.ret.tag = "Err")
            => variables' = variables]_vars

\* a failed reload of a store that holds entries
C2_Witness ==
    /\ last.op = "reload"
    /\ last.ret.tag = "Err"
    /\ DOMAIN variables # {}

-----------------------------------------------------------------------------
(* C3: a failed write is not rolled back *)

-----------------------------------------------------------------------------
(* C4: a successful reload replaces the mapping *)

\* C4: after a successful reload the mapping equals the parse of the default
\* file, so every earlier entry whose key is not in the file is gone.
C4_ReloadReplaces ==
    [][(last'.op = "reload" /\ last'.ret = Ok)
        => /\ variables' = parse(files'[DefaultPath].content)
           /\ \A k \in DOMAIN variables :
                k \notin DOMAIN parse(files'[DefaultPath].content)
                    => k \notin DOMAIN variables']_vars

\* a successful reload that left a mapping without the key A
C4_Witness ==
    /\ last.op = "reload"
    /\ last.ret = Ok
    /\ DOMAIN variables # {}
    /\ KeyA \notin DOMAIN variables

-----------------------------------------------------------------------------
(* C5: get and contains_key *)

\* C5: get(key) returns the mapping's value when the key is in the mapping
\* (whatever the environment holds), otherwise the environment's value,
\* otherwise nothing; contains_key(key) is true exactly when get(key) returns
\* a value, that is when the key is in the mapping or in the environment.
C5_GetFallback ==
    /\ last.op = "get"
        => last.ret = IF last.key \in DOMAIN variables THEN Some(variables[last.key])
                      ELSE IF last.key \in DOMAIN env THEN Some(env[last.key])
                      ELSE None
    /\ last.op = "contains_key"
        => /\ last.ret.val = (last.key \in DOMAIN variables \/ last.key \in DOMAIN env)
           /\ last.ret.val = (get(variables, env, last.key).tag = "Some")

\* a get of a key the mapping and the environment hold with different values
C5_Witness ==
    /\ last.op = "get"
    /\ last.key \in DOMAIN variables
    /\ last.key \in DOMAIN env
    /\ env[last.key] # variables[last.key]
    /\ last.ret = Some(variables[last.key])

-----------------------------------------------------------------------------
(* C6: where the keys of the mapping come from *)

ReadOps == {"get", "get_bool", "get_int", "get_f64", "contains_key", "get_all"}

\* C6: the mapping starts empty; a key enters it only by a successful load,
\* load_with_path or reload whose file parses to it, or by a set or
\* set_system_env of that key; the read accessors and export_to_system_env
\* leave the mapping as it is; so get_all() never holds a key that is only in
\* the process environment.
C6_KeysLoadedOrSet ==
    /\ variables = EmptyMap
    /\ [][/\ \A k \in DOMAIN variables' \ DOMAIN variables :
                \/ /\ last'.op \in {"load", "load_with_path", "reload"}
                   /\ last'.ret = Ok
                   /\ k \in DOMAIN parse(files[IF last'.op = "load_with_path"
                                               THEN loaded' ELSE DefaultPath].content)
                \/ /\ last'.op \in {"set", "set_system_env"}
                   /\ last'.key = k
          /\ last'.op \in ReadOps \cup {"export_to_system_env"}
                => variables' = variables
          /\ last'.op = "get_all"
                => last'.ret.val = variables /\ KeyB \notin DOMAIN last'.ret.val]_vars

\* a get answered from the environment for a key the mapping does not hold
C6_Witness ==
    /\ last.op = "get"
    /\ last.ret.tag = "Some"
    /\ last.key \in DOMAIN env
    /\ last.key \notin DOMAIN variables
    /\ DOMAIN variables # {}

-----------------------------------------------------------------------------
(* C7: export_to_system_env *)

\* the environment e overridden by the mapping m
Overridden(e, m) == [k \in DOMAIN e \cup DOMAIN m |-> IF k \in DOMAIN m THEN m[k] ELSE e[k]]

\* C7: export_to_system_env always succeeds; afterwards the environment is the
\* earlier environment overridden by the mapping, and the mapping and the
\* files are unchanged.
C7_ExportOverrides ==
    [][last'.op = "export_to_system_env"
        => /\ last'.ret = Ok
           /\ env' = Overridden(env, variables)
           /\ variables' = variables
           /\ files' = files]_vars

\* C7, the part the code keeps: an export that returns has overridden the
\* environment with the mapping and changed nothing else.
C7_ExportThatReturns ==
    [][(last'.op = "export_to_system_env" /\ last'.ret = Ok)
        => /\ env' = Overridden(env, variables)
           /\ variables' = variables
           /\ files' = files]_vars

-----------------------------------------------------------------------------
(* C10: set and remove write the default path only *)

IsSerialization(content, m) == \E o \in Orders(DOMAIN m) : content = serialize(m, o)

\* C10: for a store loaded from a path other than the default one, no set,
\* remove or set_system_env changes the file at that path (a later
\* load_with_path of it parses to the same mapping), and when the write
\* succeeds the default file holds one line per entry of the updated mapping.
C10_WritesDefaultPathOnly ==
    [][(loaded = OtherPath /\ last'.op \in {"set", "remove", "set_system_env"})
        => /\ files'[OtherPath] = files[OtherPath]
           /\ parse(files'[OtherPath].content) = parse(files[OtherPath].content)
           /\ last'.ret.tag # "Err"
                => /\ files'[DefaultPath].exists
                   /\ IsSerialization(files'[DefaultPath].content, variables')]_vars

\* a store loaded from the other path whose set has written the default file
C10_Witness ==
    /\ loaded = OtherPath
    /\ last.op = "set"
    /\ last.ret = Ok
    /\ files[DefaultPath].exists
    /\ files[DefaultPath].content # files[OtherPath].content
    /\ parse(files[OtherPath].content) # variables

-----------------------------------------------------------------------------
(* C8: get_bool, over stores and environments holding boolean spellings *)

BoolValues ==
    { <<"t", "r", "u", "e">>, <<"T", "R", "U", "E">>, <<"T", "r", "u", "e">>, <<"1">>,
      <<"f", "a", "l", "s", "e">>, <<"F", "A", "L", "S", "E">>, <<"0">>,
      <<"y", "e", "s">>, <<>>, <<"1", SP>>, <<"t", "r", "u", "e", "e">>, <<"1", "0">> }

\* the maps with at most the key KeyA and a value of BoolValues
BoolMaps == {EmptyMap} \cup {insert(EmptyMap, KeyA, v) : v \in BoolValues}

InitBool ==
    /\ variables \in BoolMaps
    /\ loaded = NoPath
    /\ files = [p \in Paths |-> NoFile]
    /\ env \in BoolMaps \cup {insert(EmptyMap, KeyB, v) : v \in BoolValues}
    /\ last = Call("new", <<>>, <<>>, Ok)

NextBool ==
    \/ \E key \in ReadKeys : call_get(key)
    \/ \E key \in ReadKeys : call_get_bool(key)

SpecBool == InitBool /\ [][NextBool]_vars

\* the same letter in either case, or the same character
SameLetter(a, b) == a = b \/ \E i \in 1..Len(Upper) : {a, b} = {Upper[i], Lower[i]}
EqIgnoreCase(s, w) == Len(s) = Len(w) /\ \A i \in 1..Len(s) : SameLetter(s[i], w[i])

\* the value get returns for the key of the last call
Got == IF last.key \in DOMAIN variables THEN Some(variables[last.key])
       ELSE IF last.key \in DOMAIN env THEN Some(env[last.key])
       ELSE None

\* C8: get_bool(key) fails with a key-not-found error exactly when get(key)
\* returns nothing; otherwise it is true for exactly "true" or "1", false for
\* exactly "false" or "0" (letters in either case), and an invalid-boolean
\* error for every other string.
C8_GetBool ==
    last.op = "get_bool"
        => /\ (last.ret = ErrOf("Key '{}' not found", last.key)) = (Got.tag = "None")
           /\ Got.tag = "Some"
                => LET v == Got.val
                       isTrue == EqIgnoreCase(v, <<"t", "r", "u", "e">>) \/ v = <<"1">>
                       isFalse == EqIgnoreCase(v, <<"f", "a", "l", "s", "e">>) \/ v = <<"0">>
                   IN  /\ isTrue => last.ret = OkVal(TRUE)
                       /\ isFalse => last.ret = OkVal(FALSE)
                       /\ ~isTrue /\ ~isFalse => last.ret = ErrOf("Invalid boolean value for key '{}'", last.key)

\* get_bool of "TRUE", found in the environment, returned true
C8_Witness ==
    /\ last.op = "get_bool"
    /\ last.key \notin DOMAIN variables
    /\ Got = Some(<<"T", "R", "U", "E">>)
    /\ last.ret = OkVal(TRUE)

-----------------------------------------------------------------------------
(* C9: parse, over every text of a small alphabet *)

MaxLen == 5
Alphabet == {"A", EQ, SP, HASH, NL}
Texts == UNION {[1..n -> Alphabet] : n \in 0..MaxLen}

InitParse ==
    /\ variables = EmptyMap
    /\ loaded = NoPath
    /\ files \in {[p \in Paths |-> File(t)] : t \in Texts}
    /\ env = EmptyMap
    /\ last = Call("new", <<>>, <<>>, Ok)

NextParse ==
    \/ load
    \/ reload

SpecParse == InitParse /\ [][NextParse]_vars

\* s without its leading and trailing whitespace, stated by what it is: the
\* one stretch of s with only whitespace before and after it that neither
\* starts nor ends with whitespace
Trimmed(s) ==
    CHOOSE t \in {SubSeq(s, i, j) : i \in 1..Len(s) + 1, j \in 0..Len(s)} :
        \E i \in 1..Len(s) + 1, j \in 0..Len(s) :
            /\ t = SubSeq(s, i, j)
            /\ i <= j + 1
            /\ \A x \in 1..Len(s) : (x < i \/ x > j) => is_whitespace(s[x])
            /\ t # <<>> => ~is_whitespace(t[1]) /\ ~is_whitespace(t[Len(t)])

\* the lines of a text: line n runs between the (n-1)th and the nth newline
NewlineAt(s) == {i \in 1..Len(s) : s[i] = NL}
LineStarts(s) == {1} \cup {i + 1 : i \in NewlineAt(s)}
LineFrom(s, a) ==
    SubSeq(s, a, (CHOOSE b \in NewlineAt(s) \cup {Len(s) + 1} :
                    b >= a /\ \A c \in NewlineAt(s) : c >= a => c >= b) - 1)

\* the lines that give an entry, by where they start
EntryStarts(s) ==
    {a \in LineStarts(s) :
        LET t == Trimmed(LineFrom(s, a)) IN t # <<>> /\ t[1] # HASH}

HasEq(t) == \E i \in 1..Len(t) : t[i] = EQ
FirstEq(t) == CHOOSE i \in 1..Len(t) : t[i] = EQ /\ \A j \in 1..(i - 1) : t[j] # EQ

ExpectedKey(s, a) ==
    LET t == Trimmed(LineFrom(s, a))
    IN  IF HasEq(t) THEN Trimmed(SubSeq(t, 1, FirstEq(t) - 1)) ELSE t

ExpectedValue(s, a) ==
    LET t == Trimmed(LineFrom(s, a))
    IN  IF HasEq(t) THEN Trimmed(SubSeq(t, FirstEq(t) + 1, Len(t))) ELSE <<>>

\* the mapping the text is to parse to: one entry per key of an entry line,
\* with the value of the last entry line that has the key
ExpectedParse(s) ==
    [k \in {ExpectedKey(s, a) : a \in EntryStarts(s)} |->
        ExpectedValue(s, CHOOSE a \in EntryStarts(s) :
            /\ ExpectedKey(s, a) = k
            /\ \A b \in EntryStarts(s) : ExpectedKey(s, b) = k => b <= a)]

\* C9: parse(text) has one entry per distinct key among the lines that, once
\* trimmed, are not empty and do not start with '#'; the key is the trimmed
\* text before the line's first '=' (the whole trimmed line when it has
\* none), the value the trimmed text after it (empty when it has none), and
\* the last line with a key gives its value.
C9_Parse ==
    (last.op \in {"load", "reload"} /\ last.ret = Ok)
        => variables = ExpectedParse(files[DefaultPath].content)

\* a loaded text with two lines for the key A, the second with a value that
\* holds an '='
C9_Witness ==
    /\ last.op = "load"
    /\ last.ret = Ok
    /\ files[DefaultPath].content = <<"A", NL, "A", EQ, EQ>>
    /\ variables = insert(EmptyMap, KeyA, <<EQ>>)

====
